---------------------------- MODULE Spec2Model ----------------------------
(***************************************************************************)
(* A model of scripts/merge_epg.py: the timestamp parser, the window test, *)
(* and main() as a step machine (fetch, merge channels, merge programmes,  *)
(* sort, write).                                                           *)
(*                                                                         *)
(* Python strings are sequences of one-character strings, so that the      *)
(* regular expression, str.strip and the lexicographic sort keys are       *)
(* computed character by character.  An optional value (an attribute that  *)
(* may be missing, the text of a child that may be missing) is <<>> when   *)
(* missing and <<v>> when present.                                         *)
(*                                                                         *)
(* A datetime is a record [tag, days, secs, us]: tag "dt" with the         *)
(* proleptic Gregorian ordinal of the UTC day (date.toordinal), the second *)
(* of the day and the microsecond; tag "none" is Python's None; tag        *)
(* "raise" is an exception leaving parse_xmltv_time.                       *)
(***************************************************************************)
EXTENDS Integers, Sequences, FiniteSets, TLC

\* ------------------------------------------------------------------ bounds

\* The longest configured source list (URLS) the model runs.
MaxSources == 2

\* ----------------------------------------------------------------- strings

\* The characters of the model's strings, in ascending code point order.
Alphabet ==
  << "\t", " ", "+", "-", "0", "1", "2", "3", "4", "5", "6", "7", "8", "9",
     "A", "B", "X", "Y", "Z", "g" >>

\* ord(c), up to a monotone renumbering of the code points.
Ord(c) == CHOOSE i \in 1..Len(Alphabet) : Alphabet[i] = c

\* \d of the regular expression.
IsDigit(c) == c \in {"0", "1", "2", "3", "4", "5", "6", "7", "8", "9"}

\* \s of the regular expression, and the characters str.strip removes.
IsSpace(c) == c \in {"\t", " "}

\* int() of one digit.
DigitVal(c) == Ord(c) - Ord("0")

\* int() of a string of digits.
RECURSIVE IntOf(_)
IntOf(s) ==
  IF s = <<>> THEN 0
  ELSE 10 * IntOf(SubSeq(s, 1, Len(s) - 1)) + DigitVal(s[Len(s)])

\* Python's s < t on strings: the first differing character decides, and a
\* proper prefix is the smaller.
RECURSIVE StrLess(_, _)
StrLess(s, t) ==
  IF t = <<>> THEN FALSE
  ELSE IF s = <<>> THEN TRUE
  ELSE IF s[1] # t[1] THEN Ord(s[1]) < Ord(t[1])
  ELSE StrLess(Tail(s), Tail(t))

\* str.lstrip and str.rstrip, then str.strip.
RECURSIVE LStrip(_)
LStrip(s) == IF s # <<>> /\ IsSpace(s[1]) THEN LStrip(Tail(s)) ELSE s

RECURSIVE RStrip(_)
RStrip(s) ==
  IF s # <<>> /\ IsSpace(s[Len(s)]) THEN RStrip(SubSeq(s, 1, Len(s) - 1)) ELSE s

Strip(s) == LStrip(RStrip(s))

\* x or "" for an optional string x: a missing value and an empty one both
\* become "".
OrEmpty(x) == IF x = <<>> THEN <<>> ELSE x[1]

\* ---------------------------------------------------------------- datetime

None == [tag |-> "none", days |-> 0, secs |-> 0, us |-> 0]
Raise == [tag |-> "raise", days |-> 0, secs |-> 0, us |-> 0]
DT(d, s, u) == [tag |-> "dt", days |-> d, secs |-> s, us |-> u]

\* datetime.MINYEAR, datetime.MAXYEAR and the seconds of a day.
MINYEAR == 1
MAXYEAR == 9999
SecsPerDay == 86400

IsLeap(y) == y % 4 = 0 /\ (y % 100 # 0 \/ y % 400 = 0)

DaysInMonth(y, m) ==
  IF m = 2 THEN (IF IsLeap(y) THEN 29 ELSE 28)
  ELSE IF m \in {4, 6, 9, 11} THEN 30 ELSE 31

\* Days before January 1st of year y (datetime._days_before_year).
DaysBeforeYear(y) ==
  LET p == y - 1 IN p * 365 + (p \div 4) - (p \div 100) + (p \div 400)

\* Days of year y before the first of month m (datetime._days_before_month).
RECURSIVE DaysBeforeMonth(_, _)
DaysBeforeMonth(y, m) ==
  IF m = 1 THEN 0 ELSE DaysBeforeMonth(y, m - 1) + DaysInMonth(y, m - 1)

\* date.toordinal: January 1st of year 1 is day 1.
ToOrdinal(y, m, d) == DaysBeforeYear(y) + DaysBeforeMonth(y, m) + d

\* The largest ordinal of a date (date.max).
MaxOrdinal == ToOrdinal(MAXYEAR, 12, 31)

\* a <= b on datetimes of the same zone.
DtLeq(a, b) ==
  \/ a.days < b.days
  \/ a.days = b.days /\ a.secs < b.secs
  \/ a.days = b.days /\ a.secs = b.secs /\ a.us <= b.us

\* datetime - timedelta(seconds = off), re-normalised to a day and a second
\* of the day; OverflowError when the day leaves date.min .. date.max.
MinusSeconds(dt, off) ==
  LET t == dt.secs - off
      d == dt.days + (t \div SecsPerDay)
      s == t % SecsPerDay
  IN IF d < 1 \/ d > MaxOrdinal THEN Raise ELSE DT(d, s, dt.us)

\* datetime +/- timedelta(days = n), as main() builds the window.
PlusDays(dt, n) == DT(dt.days + n, dt.secs, dt.us)

\* datetime.strptime(core, "%Y%m%d%H%M%S") on 14 digits: every field takes
\* its two digits (the year its four); a field out of its range, a day the
\* month does not have and the year 0 raise ValueError.
Strptime(core) ==
  LET y == IntOf(SubSeq(core, 1, 4))
      mo == IntOf(SubSeq(core, 5, 6))
      d == IntOf(SubSeq(core, 7, 8))
      h == IntOf(SubSeq(core, 9, 10))
      mi == IntOf(SubSeq(core, 11, 12))
      s == IntOf(SubSeq(core, 13, 14))
  IN IF /\ y >= MINYEAR
        /\ mo \in 1..12
        /\ d >= 1
        /\ d <= DaysInMonth(y, mo)
        /\ h <= 23
        /\ mi <= 59
        /\ s <= 59
     THEN DT(ToOrdinal(y, mo, d), h * 3600 + mi * 60 + s, 0)
     ELSE Raise

\* ------------------------------------------------------- parse_xmltv_time

\* group(1) of the match: the first 14 characters when they are digits.
CoreMatches(ts) ==
  /\ Len(ts) >= 14
  /\ \A i \in 1..14 : IsDigit(ts[i])

\* The position after the run of whitespace that starts at position i.
RECURSIVE SkipSpace(_, _)
SkipSpace(ts, i) ==
  IF i <= Len(ts) /\ IsSpace(ts[i]) THEN SkipSpace(ts, i + 1) ELSE i

\* group(2) of the match, optional: after the core and any whitespace, a
\* sign and four digits, or Z; missing when neither follows (the rest of
\* the string is not looked at: re.match anchors the start only).
TzGroup(ts) ==
  LET k == SkipSpace(ts, 15) IN
  IF /\ k + 4 <= Len(ts)
     /\ ts[k] \in {"+", "-"}
     /\ \A i \in (k + 1)..(k + 4) : IsDigit(ts[i])
  THEN << SubSeq(ts, k, k + 4) >>
  ELSE IF k <= Len(ts) /\ ts[k] = "Z" THEN << <<"Z">> >>
  ELSE <<>>

\* timezone(sign * timedelta(hours, minutes)) and astimezone(utc): the
\* offset in seconds; ValueError unless it is strictly within 24 hours.
OffsetSeconds(tz) ==
  LET sign == IF tz[1] = "+" THEN 1 ELSE -1
      hours == IntOf(SubSeq(tz, 2, 3))
      mins == IntOf(SubSeq(tz, 4, 5))
  IN sign * (hours * 3600 + mins * 60)

ApplyOffset(base, tz) ==
  LET off == OffsetSeconds(tz) IN
  IF off >= SecsPerDay \/ off <= -SecsPerDay THEN Raise
  ELSE MinusSeconds(base, off)

parse_xmltv_time(ts) ==
  IF ts = <<>> THEN None
  ELSE IF ~CoreMatches(ts) THEN None
  ELSE LET base == Strptime(SubSeq(ts, 1, 14))
           tz == TzGroup(ts)
       IN IF base.tag = "raise" THEN Raise
          ELSE IF tz # <<>> /\ tz[1] # <<"Z">> THEN ApplyOffset(base, tz[1])
          ELSE base

\* ------------------------------------------------------ intersects_window

\* not dt: None is falsy, every datetime is truthy.
Falsy(dt) == dt.tag = "none"

\* A variant of intersects_window whose comparisons are strict.
intersects_window_Strict(start_dt, stop_dt, win_start, win_end) ==
  IF Falsy(start_dt) /\ Falsy(stop_dt) THEN TRUE
  ELSE IF Falsy(start_dt) THEN ~DtLeq(stop_dt, win_start)
  ELSE IF Falsy(stop_dt) THEN ~DtLeq(win_end, start_dt)
  ELSE ~DtLeq(win_end, start_dt) /\ ~DtLeq(stop_dt, win_start)

intersects_window(start_dt, stop_dt, win_start, win_end) ==
  IF Falsy(start_dt) /\ Falsy(stop_dt) THEN TRUE
  ELSE IF Falsy(start_dt) THEN DtLeq(win_start, stop_dt)
  ELSE IF Falsy(stop_dt) THEN DtLeq(start_dt, win_end)
  ELSE DtLeq(start_dt, win_end) /\ DtLeq(win_start, stop_dt)

\* --------------------------------------------------------------- elements

\* An lxml element as main() reads it: its tag, the attributes id, channel,
\* start and stop (optional strings), the text of its first title child
\* (optional), and everything else it carries (other attributes, children)
\* as one opaque value that is never looked into.
Element(tag, id, channel, start, stop, title, body) ==
  [tag |-> tag, id |-> id, channel |-> channel, start |-> start,
   stop |-> stop, title |-> title, body |-> body]

\* c.get("id") or "" : the de-duplication and sort key of a channel.
ChannelId(ch) == OrEmpty(ch.id)

\* p.get("start") or "" : the sort key of a programme.
StartKey(pr) == OrEmpty(pr.start)

\* (pr.findtext("title") or "").strip()
TitleText(pr) == Strip(OrEmpty(pr.title))

\* A variant of ProgrammeKey that does not strip the title.
ProgrammeKey_Unstripped(pr) ==
  << OrEmpty(pr.channel), OrEmpty(pr.start), OrEmpty(pr.stop), OrEmpty(pr.title) >>

\* key = (ch, start_s, stop_s, title_text)
ProgrammeKey(pr) ==
  << OrEmpty(pr.channel), OrEmpty(pr.start), OrEmpty(pr.stop), TitleText(pr) >>

\* root.findall(tag): the children with that tag, in document order.
RECURSIVE FindAll(_, _)
FindAll(children, tag) ==
  IF children = <<>> THEN <<>>
  ELSE IF children[1].tag = tag
       THEN <<children[1]>> \o FindAll(Tail(children), tag)
       ELSE FindAll(Tail(children), tag)

\* ------------------------------------------------------------ merge steps

\* The state the loop of main() accumulates; raised is TRUE once an
\* exception has left the loop body.
Acc(root, cids, keys, raised) ==
  [tv_root |-> root, channel_ids_seen |-> cids, programme_keys_seen |-> keys,
   raised |-> raised]

EmptyAcc == Acc(<<>>, {}, {}, FALSE)

\* A variant of MergeChannel in which a later channel with a seen id
\* overwrites the element kept for that id.
MergeChannel_Overwrites(acc, ch) ==
  LET cid == ChannelId(ch) IN
  IF cid \notin acc.channel_ids_seen
  THEN Acc(Append(acc.tv_root, ch), acc.channel_ids_seen \cup {cid},
           acc.programme_keys_seen, acc.raised)
  ELSE Acc([k \in 1..Len(acc.tv_root) |->
              IF acc.tv_root[k].tag = "channel" /\ ChannelId(acc.tv_root[k]) = cid
              THEN ch ELSE acc.tv_root[k]],
           acc.channel_ids_seen, acc.programme_keys_seen, acc.raised)

\* One iteration of the channel loop.
MergeChannel(acc, ch) ==
  LET cid == ChannelId(ch) IN
  IF cid \notin acc.channel_ids_seen
  THEN Acc(Append(acc.tv_root, ch), acc.channel_ids_seen \cup {cid},
           acc.programme_keys_seen, acc.raised)
  ELSE acc

\* The window test of one programme, on what parse_xmltv_time returned.
PassesWindow(start_dt, stop_dt, win_start, win_end) ==
  intersects_window(start_dt, stop_dt, win_start, win_end)

\* A variant of KeepProgramme that appends without looking at the seen keys.
KeepProgramme_Always(acc, pr) ==
  Acc(Append(acc.tv_root, pr), acc.channel_ids_seen,
      acc.programme_keys_seen \cup {ProgrammeKey(pr)}, acc.raised)

\* The de-duplication of one programme that passed the window.
KeepProgramme(acc, pr) ==
  LET key == ProgrammeKey(pr) IN
  IF key \in acc.programme_keys_seen THEN acc
  ELSE Acc(Append(acc.tv_root, pr), acc.channel_ids_seen,
           acc.programme_keys_seen \cup {key}, acc.raised)

\* What one iteration of the programme loop does with pr: "raise" when a
\* parse_xmltv_time call raises (nothing catches it), "window" when the
\* window test drops it, "duplicate" when its key was seen, else "keep".
Verdict(acc, pr, win_start, win_end) ==
  LET start_dt == parse_xmltv_time(OrEmpty(pr.start))
      stop_dt == parse_xmltv_time(OrEmpty(pr.stop))
  IN IF start_dt.tag = "raise" \/ stop_dt.tag = "raise" THEN "raise"
     ELSE IF ~PassesWindow(start_dt, stop_dt, win_start, win_end) THEN "window"
     ELSE IF ProgrammeKey(pr) \in acc.programme_keys_seen THEN "duplicate"
     ELSE "keep"

\* One iteration of the programme loop.
MergeProgramme(acc, pr, win_start, win_end) ==
  LET v == Verdict(acc, pr, win_start, win_end) IN
  IF v = "raise"
  THEN Acc(acc.tv_root, acc.channel_ids_seen, acc.programme_keys_seen, TRUE)
  ELSE IF v = "window" THEN acc
  ELSE KeepProgramme(acc, pr)

\* The channel loop and the programme loop over whole sequences; the
\* programme loop stops at the first exception.
RECURSIVE MergeChannels(_, _)
MergeChannels(acc, chs) ==
  IF chs = <<>> THEN acc
  ELSE MergeChannels(MergeChannel(acc, chs[1]), Tail(chs))

RECURSIVE MergeProgrammes(_, _, _, _)
MergeProgrammes(acc, prs, win_start, win_end) ==
  IF prs = <<>> \/ acc.raised THEN acc
  ELSE MergeProgrammes(MergeProgramme(acc, prs[1], win_start, win_end),
                       Tail(prs), win_start, win_end)

\* The body of the source loop for one fetched document.
MergeDocument(acc, root, win_start, win_end) ==
  MergeProgrammes(MergeChannels(acc, FindAll(root, "channel")),
                  FindAll(root, "programme"), win_start, win_end)

\* The source loop over a list of fetch results, each <<>> (fetch_xml
\* raised: the source is skipped) or <<root>>.
RECURSIVE MergeSources(_, _, _, _)
MergeSources(acc, results, win_start, win_end) ==
  IF results = <<>> \/ acc.raised THEN acc
  ELSE MergeSources(
         IF results[1] = <<>> THEN acc
         ELSE MergeDocument(acc, results[1][1], win_start, win_end),
         Tail(results), win_start, win_end)

\* ------------------------------------------------------------------- sort

\* list.sort(key = ...) on a list of <<key, element>> pairs: a stable sort,
\* here by insertion: each pair goes after every pair already placed whose
\* key is not greater than its own.
\* A variant of InsertSorted that places a pair before the pairs of equal key.
RECURSIVE InsertSorted_BeforeEqual(_, _)
InsertSorted_BeforeEqual(sorted, pair) ==
  IF sorted = <<>> THEN <<pair>>
  ELSE IF ~StrLess(sorted[1][1], pair[1]) THEN <<pair>> \o sorted
  ELSE <<sorted[1]>> \o InsertSorted_BeforeEqual(Tail(sorted), pair)

RECURSIVE InsertSorted(_, _)
InsertSorted(sorted, pair) ==
  IF sorted = <<>> THEN <<pair>>
  ELSE IF StrLess(pair[1], sorted[1][1]) THEN <<pair>> \o sorted
  ELSE <<sorted[1]>> \o InsertSorted(Tail(sorted), pair)

RECURSIVE StableSort(_)
StableSort(pairs) ==
  IF pairs = <<>> THEN <<>>
  ELSE InsertSorted(StableSort(SubSeq(pairs, 1, Len(pairs) - 1)),
                    pairs[Len(pairs)])

\* The elements of a list of <<key, element>> pairs.
Elements(pairs) == [k \in 1..Len(pairs) |-> pairs[k][2]]

\* A variant of SortChannels that leaves the list as accumulated.
SortChannels_Unsorted(channels) == channels

\* channels.sort(key=lambda c: (c.get("id") or ""))
SortChannels(channels) ==
  Elements(StableSort(
    [k \in 1..Len(channels) |-> <<ChannelId(channels[k]), channels[k]>>]))

\* programmes.sort(key=lambda p: (p.get("start") or ""))
SortProgrammes(programmes) ==
  Elements(StableSort(
    [k \in 1..Len(programmes) |-> <<StartKey(programmes[k]), programmes[k]>>]))

\* Lines 157-167: take the channels and the programmes out of tv_root, sort
\* each list, and append the channels and then the programmes.
SortRoot(root) ==
  SortChannels(FindAll(root, "channel"))
    \o SortProgrammes(FindAll(root, "programme"))

\* ----------------------------------------------------------------- inputs

\* The characters of a number below 100 as two digits, and of a timestamp
\* core YYYYMMDDHHMMSS.
D2(n) == << Alphabet[Ord("0") + (n \div 10)], Alphabet[Ord("0") + (n % 10)] >>

Core(y, mo, d, h, mi, s) ==
  D2(y \div 100) \o D2(y % 100) \o D2(mo) \o D2(d) \o D2(h) \o D2(mi) \o D2(s)

\* A channel element and a programme element of a source document.
Channel(id, body) == Element("channel", id, <<>>, <<>>, <<>>, <<>>, body)

Programme(channel, start, stop, title, body) ==
  Element("programme", <<>>, channel, start, stop, title, body)

\* Raw timestamps of the source documents.
tA == Core(2025, 1, 1, 0, 0, 0) \o <<" ", "+", "0", "0", "0", "0">>
tA5 == Core(2025, 1, 1, 5, 0, 0) \o <<" ", "+", "0", "5", "0", "0">>
tB == Core(2025, 1, 1, 1, 0, 0) \o <<" ", "+", "0", "0", "0", "0">>
tEnd == Core(2025, 1, 2, 0, 0, 0)
tEnd1 == Core(2025, 1, 2, 0, 0, 1) \o <<"Z">>
tWs == Core(2024, 12, 31, 0, 0, 0) \o <<" ", "+", "0", "0", "0", "0">>
tOld == Core(2024, 12, 1, 0, 0, 0) \o <<" ", "+", "0", "0", "0", "0">>
tOld2 == Core(2024, 12, 1, 1, 0, 0) \o <<" ", "+", "0", "0", "0", "0">>
tNeg == Core(2025, 1, 1, 0, 0, 0) \o <<" ", "-", "0", "5", "0", "0">>
tCarry == Core(2024, 12, 31, 23, 30, 0) \o <<" ", "-", "0", "1", "0", "0">>
tGarb == <<"g">>
tM13 == Core(2025, 13, 1, 0, 0, 0) \o <<" ", "+", "0", "0", "0", "0">>
tOff == Core(2025, 1, 1, 0, 0, 0) \o <<" ", "+", "9", "9", "9", "9">>

\* The documents the configured URLs may serve: children of the root in
\* document order.
Doc1 ==
  << Channel(<< <<"B">> >>, "b1"),
     Programme(<< <<"A">> >>, <<tA>>, <<tB>>, << <<" ", "X", " ">> >>, "p1"),
     Channel(<<>>, "e1"),
     Channel(<< <<"A">> >>, "a1"),
     Programme(<< <<"A">> >>, <<tEnd>>, <<>>, <<>>, "p4"),
     Channel(<< <<>> >>, "e1b") >>

Doc2 ==
  << Channel(<< <<"A">> >>, "a2"),
     Channel(<< <<"B">> >>, "b2"),
     Programme(<< <<"A">> >>, <<tA5>>, <<tB>>, << <<"X">> >>, "p2"),
     Programme(<< <<"A">> >>, <<tA>>, <<tB>>, << <<"X">> >>, "p1b"),
     Programme(<< <<"A">> >>, <<tEnd1>>, <<tEnd1>>, << <<"X">> >>, "p5"),
     Programme(<< <<"A">> >>, <<tCarry>>, <<tNeg>>, << <<"X">> >>, "p11") >>

Doc3 ==
  << Programme(<< <<"B">> >>, <<tA>>, <<tB>>, << <<"Y">> >>, "p3"),
     Programme(<<>>, <<>>, <<>>, <<>>, "p6"),
     Channel(<< <<"A", "B">> >>, "ab3"),
     Channel(<<>>, "e3"),
     Programme(<< <<"B">> >>, <<tGarb>>, <<tWs>>, << <<"X">> >>, "p8"),
     Programme(<< <<"B">> >>, <<tOld>>, <<tOld2>>, << <<"X">> >>, "p7"),
     Programme(<< <<"B">> >>, <<tEnd1>>, <<>>, <<>>, "p13") >>

Doc4 ==
  << Channel(<< <<"B">> >>, "b4"),
     Programme(<< <<"A">> >>, <<tGarb>>, <<tGarb>>, << <<"Y">> >>, "p12"),
     Programme(<< <<"B">> >>, <<tM13>>, <<tB>>, << <<"X">> >>, "p9") >>

Doc5 ==
  << Channel(<< <<"A">> >>, "a5"),
     Programme(<< <<"A">> >>, <<tNeg>>, <<tOff>>, << <<"X">> >>, "p10") >>

SourcePool == {Doc1, Doc2, Doc3, Doc4, Doc5}

\* The lists of served documents a run may be configured with.
SourceLists == UNION {[1..n -> SourcePool] : n \in 0..MaxSources}

\* The values datetime.now(timezone.utc) may return: midnight of
\* 2025-01-01 (ordinal 739252) on the second, and half a second later.
Nows == {DT(739252, 0, 0), DT(739252, 0, 500000)}

\* ------------------------------------------------------------- the program

\* KEEP_PAST_DAYS and KEEP_FUTURE_DAYS.
KEEP_PAST_DAYS == 1
KEEP_FUTURE_DAYS == 1

VARIABLES
  sources,              \* what each URL of URLS serves, in list order
  results,              \* what fetch_xml has returned so far: <<root>>, or <<>> when it raised
  now,                  \* main: now
  pc,                   \* where main() is
  i,                    \* the index of url in URLS
  root,                 \* main: the children of doc.getroot()
  j,                    \* the index of ch or pr in its findall list
  pr,                   \* main: pr, the programme of the last iteration
  start_dt,             \* main: start_dt
  stop_dt,              \* main: stop_dt
  verdict,              \* what the last programme iteration did
  tv_root,              \* main: the children of tv_root
  channel_ids_seen,     \* main: channel_ids_seen
  programme_keys_seen,  \* main: programme_keys_seen
  out_file,             \* epg.xml.gz on disk
  raised                \* where the exception that ended main() was raised

vars ==
  << sources, results, now, pc, i, root, j, pr, start_dt, stop_dt, verdict,
     tv_root, channel_ids_seen, programme_keys_seen, out_file, raised >>

win_start == PlusDays(now, -KEEP_PAST_DAYS)
win_end == PlusDays(now, KEEP_FUTURE_DAYS)

\* The accumulated state as the merge steps take it.
CurrentAcc == Acc(tv_root, channel_ids_seen, programme_keys_seen, FALSE)

NoProgramme == Programme(<<>>, <<>>, <<>>, <<>>, "")

\* The state main() starts the source loop in, for a list of served
\* documents and a clock value.
Start(srcs, clock) ==
  /\ sources = srcs
  /\ now = clock
  /\ results = <<>>
  /\ pc = "fetch"
  /\ i = 1
  /\ root = <<>>
  /\ j = 1
  /\ pr = NoProgramme
  /\ start_dt = None
  /\ stop_dt = None
  /\ verdict = "none"
  /\ tv_root = <<>>
  /\ channel_ids_seen = {}
  /\ programme_keys_seen = {}
  /\ out_file \in {"absent", "previous"}
  /\ raised = "none"

Init == \E srcs \in SourceLists : \E clock \in Nows : Start(srcs, clock)

\* fetch_xml(url) returns a parsed document.
FetchOk ==
  /\ pc = "fetch"
  /\ i <= Len(sources)
  /\ results' = Append(results, <<sources[i]>>)
  /\ root' = sources[i]
  /\ pc' = "channels"
  /\ j' = 1
  /\ UNCHANGED << sources, now, i, pr, start_dt, stop_dt, verdict, tv_root,
                  channel_ids_seen, programme_keys_seen, out_file, raised >>

\* fetch_xml(url) raises (the request, the decompression or the XML parse):
\* the except clause prints a warning and continues with the next url.
FetchFail ==
  /\ pc = "fetch"
  /\ i <= Len(sources)
  /\ results' = Append(results, <<>>)
  /\ i' = i + 1
  /\ UNCHANGED << sources, now, pc, root, j, pr, start_dt, stop_dt, verdict,
                  tv_root, channel_ids_seen, programme_keys_seen, out_file,
                  raised >>

\* One iteration of: for ch in root.findall("channel").
ChannelStep ==
  /\ pc = "channels"
  /\ j <= Len(FindAll(root, "channel"))
  /\ LET acc == MergeChannel(CurrentAcc, FindAll(root, "channel")[j]) IN
       /\ tv_root' = acc.tv_root
       /\ channel_ids_seen' = acc.channel_ids_seen
  /\ j' = j + 1
  /\ UNCHANGED << sources, results, now, pc, i, root, pr, start_dt, stop_dt,
                  verdict, programme_keys_seen, out_file, raised >>

\* The channel loop is exhausted: on to the programme loop.
ChannelsDone ==
  /\ pc = "channels"
  /\ j > Len(FindAll(root, "channel"))
  /\ pc' = "programmes"
  /\ j' = 1
  /\ UNCHANGED << sources, results, now, i, root, pr, start_dt, stop_dt,
                  verdict, tv_root, channel_ids_seen, programme_keys_seen,
                  out_file, raised >>

\* One iteration of: for pr in root.findall("programme"). An exception of
\* parse_xmltv_time is caught nowhere and ends main().
ProgrammeStep ==
  /\ pc = "programmes"
  /\ j <= Len(FindAll(root, "programme"))
  /\ LET p == FindAll(root, "programme")[j]
         sdt == parse_xmltv_time(OrEmpty(p.start))
         acc == MergeProgramme(CurrentAcc, p, win_start, win_end)
     IN /\ pr' = p
        /\ start_dt' = sdt
        /\ stop_dt' = IF sdt.tag = "raise" THEN stop_dt
                      ELSE parse_xmltv_time(OrEmpty(p.stop))
        /\ verdict' = Verdict(CurrentAcc, p, win_start, win_end)
        /\ tv_root' = acc.tv_root
        /\ programme_keys_seen' = acc.programme_keys_seen
        /\ pc' = IF acc.raised THEN "error" ELSE pc
        /\ raised' = IF acc.raised THEN "parse_xmltv_time" ELSE raised
  /\ j' = j + 1
  /\ UNCHANGED << sources, results, now, i, root, channel_ids_seen, out_file >>

\* The programme loop is exhausted: on to the next url.
ProgrammesDone ==
  /\ pc = "programmes"
  /\ j > Len(FindAll(root, "programme"))
  /\ pc' = "fetch"
  /\ i' = i + 1
  /\ UNCHANGED << sources, results, now, root, j, pr, start_dt, stop_dt,
                  verdict, tv_root, channel_ids_seen, programme_keys_seen,
                  out_file, raised >>

\* The source loop is exhausted: lines 157-167 sort tv_root.
Sort ==
  /\ pc = "fetch"
  /\ i > Len(sources)
  /\ tv_root' = SortRoot(tv_root)
  /\ pc' = "open"
  /\ UNCHANGED << sources, results, now, i, root, j, pr, start_dt, stop_dt,
                  verdict, channel_ids_seen, programme_keys_seen, out_file,
                  raised >>

\* gzip.open(output_name, "wb"): opening for writing truncates the file at
\* the output path; when it raises, the file is as it was.
OpenOutput ==
  /\ pc = "open"
  /\ \E ok \in BOOLEAN :
       /\ pc' = IF ok THEN "write" ELSE "error"
       /\ out_file' = IF ok THEN "partial" ELSE out_file
       /\ raised' = IF ok THEN raised ELSE "gzip.open"
  /\ UNCHANGED << sources, results, now, i, root, j, pr, start_dt, stop_dt,
                  verdict, tv_root, channel_ids_seen, programme_keys_seen >>

\* tree.write(f, ...) and the close of the with block: the whole document is
\* on disk, or an exception ends main() with what was written so far.
WriteOutput ==
  /\ pc = "write"
  /\ \E ok \in BOOLEAN :
       /\ pc' = IF ok THEN "done" ELSE "error"
       /\ out_file' = IF ok THEN "complete" ELSE "partial"
       /\ raised' = IF ok THEN raised ELSE "tree.write"
  /\ UNCHANGED << sources, results, now, i, root, j, pr, start_dt, stop_dt,
                  verdict, tv_root, channel_ids_seen, programme_keys_seen >>

Next ==
  \/ FetchOk
  \/ FetchFail
  \/ ChannelStep
  \/ ChannelsDone
  \/ ProgrammeStep
  \/ ProgrammesDone
  \/ Sort
  \/ OpenOutput
  \/ WriteOutput

Spec == Init /\ [][Next]_vars

\* ------------------------------------------- runs over a range of timestamps

\* Timestamp cores: valid ones at the ends of days, months and years, in a
\* leap February, in the first and the last year of datetime; and cores with
\* a 13th month, a 29th of February 2025, a 60th second, the year 0.
TimeCores ==
  { Core(2025, 1, 1, 0, 0, 0), Core(2024, 12, 31, 23, 30, 0),
    Core(2024, 2, 29, 23, 0, 0), Core(2025, 2, 28, 23, 30, 0),
    Core(2025, 3, 1, 0, 15, 0), Core(1, 1, 1, 0, 0, 0),
    Core(9999, 12, 31, 23, 30, 0), Core(2025, 13, 1, 0, 0, 0),
    Core(2025, 2, 29, 0, 0, 0), Core(2025, 1, 1, 0, 0, 60),
    Core(0, 1, 1, 0, 0, 0) }

\* What follows the core: nothing, Z, offsets of either sign within and
\* beyond 24 hours, with and without whitespace, and an ill-formed offset.
TimeSuffixes ==
  { <<>>, <<"Z">>, <<" ", "Z">>,
    <<" ", "+", "0", "0", "0", "0">>, <<" ", "-", "0", "5", "0", "0">>,
    <<" ", "+", "0", "5", "0", "0">>, <<" ", "-", "0", "1", "0", "0">>,
    <<"+", "0", "1", "3", "0">>, <<"\t", "-", "0", "0", "4", "5">>,
    <<" ", "+", "2", "3", "5", "9">>, <<" ", "-", "2", "3", "5", "9">>,
    <<" ", "+", "0", "0", "9", "9">>, <<" ", "+", "2", "4", "0", "0">>,
    <<" ", "-", "9", "9", "9", "9">>, <<" ", "+", "0", "5">>,
    <<" ", "+", "0", "1", "0", "0", "g">> }

TimePool == {c \o x : c \in TimeCores, x \in TimeSuffixes}

\* A run over one source that serves one channel and one programme whose
\* start is drawn from TimePool.
InitTime ==
  \E ts \in TimePool : \E clock \in Nows :
    Start(<< << Channel(<< <<"A">> >>, "a"),
                Programme(<< <<"A">> >>, <<ts>>, <<>>, << <<"X">> >>, "t") >> >>,
          clock)

SpecTime == InitTime /\ [][Next]_vars

\* ------------------------------------------------------ what was fetched

\* The loop is between two sources, or past the last one: every fetched
\* document has been merged completely.
Settled == pc \in {"fetch", "open", "write", "done"}

\* The sort has run.
Sorted == pc \in {"open", "write", "done"}

\* The children of every document fetched so far, in source order and then
\* document order.
RECURSIVE Flatten(_)
Flatten(rs) ==
  IF rs = <<>> THEN <<>>
  ELSE (IF rs[1] = <<>> THEN <<>> ELSE rs[1][1]) \o Flatten(Tail(rs))

\* The fetch results without the failed ones.
RECURSIVE Successful(_)
Successful(rs) ==
  IF rs = <<>> THEN <<>>
  ELSE (IF rs[1] = <<>> THEN <<>> ELSE <<rs[1]>>) \o Successful(Tail(rs))

\* The smallest index of seq whose element satisfies "has the id / key k".
FirstIndex(S) == CHOOSE k \in S : \A m \in S : k <= m

\* ---------------------------------------------------------------- claim C2

C2_Id(ch) == IF ch.id = <<>> THEN <<>> ELSE ch.id[1]

\* C2: after any sequence of processed sources the accumulated output holds
\* at most one channel element per id (a missing id counting as the empty
\* string); the element kept for an id is the first one met in source order
\* then document order, unchanged; a later channel with the same id neither
\* replaces it nor is merged into it.
C2_FirstChannelPerIdKept ==
  LET kept == FindAll(tv_root, "channel")
      met == FindAll(Flatten(results), "channel")
  IN /\ \A a, b \in 1..Len(kept) :
          a # b => C2_Id(kept[a]) # C2_Id(kept[b])
     /\ Settled =>
          /\ \A a \in 1..Len(kept) :
               LET same == {k \in 1..Len(met) : C2_Id(met[k]) = C2_Id(kept[a])}
               IN same # {} /\ kept[a] = met[FirstIndex(same)]
          /\ \A k \in 1..Len(met) :
               \E a \in 1..Len(kept) : C2_Id(kept[a]) = C2_Id(met[k])

\* Doc1 and then Doc2 were merged: the channel with id B kept is Doc1's,
\* and Doc2's channels A and B were met and discarded.
C2_Witness ==
  /\ Settled
  /\ Len(results) = 2
  /\ results[1] = <<Doc1>>
  /\ results[2] = <<Doc2>>
  /\ \E a \in 1..Len(tv_root) :
       tv_root[a].tag = "channel" /\ tv_root[a].body = "b1"

\* ---------------------------------------------------------------- claim C3

C3_Attr(x) == IF Len(x) = 0 THEN <<>> ELSE x[1]

\* The text without its leading and trailing whitespace.
C3_Trim(s) ==
  LET solid == {k \in 1..Len(s) : ~IsSpace(s[k])} IN
  IF solid = {} THEN <<>>
  ELSE SubSeq(s, FirstIndex(solid), CHOOSE k \in solid : \A m \in solid : m <= k)

C3_Key(p) ==
  << C3_Attr(p.channel), C3_Attr(p.start), C3_Attr(p.stop), C3_Trim(C3_Attr(p.title)) >>

\* The programme passes the window of this run.
C3_Passes(p) ==
  intersects_window(parse_xmltv_time(C3_Attr(p.start)),
                    parse_xmltv_time(C3_Attr(p.stop)), win_start, win_end)

\* C3: programme duplicates are decided by exact string equality of the key
\* (channel attribute, raw start, raw stop, trimmed title text, each
\* defaulting to the empty string): no two programmes of the output share a
\* key, the first window-passing programme with a key is the one kept, and
\* two window-passing programmes whose parsed instants are equal but whose
\* raw start or stop strings differ are both kept.
C3_ProgrammesUniqueByRawKey ==
  LET kept == FindAll(tv_root, "programme")
      met == FindAll(Flatten(results), "programme")
      passing == {k \in 1..Len(met) : C3_Passes(met[k])}
  IN /\ \A a, b \in 1..Len(kept) :
          a # b => C3_Key(kept[a]) # C3_Key(kept[b])
     /\ Settled =>
          /\ \A a \in 1..Len(kept) :
               LET same == {k \in passing : C3_Key(met[k]) = C3_Key(kept[a])}
               IN same # {} /\ kept[a] = met[FirstIndex(same)]
          /\ \A k \in passing :
               \E a \in 1..Len(kept) : C3_Key(kept[a]) = C3_Key(met[k])
          /\ \A k, m \in passing :
               ( /\ parse_xmltv_time(C3_Attr(met[k].start))
                      = parse_xmltv_time(C3_Attr(met[m].start))
                 /\ parse_xmltv_time(C3_Attr(met[k].stop))
                      = parse_xmltv_time(C3_Attr(met[m].stop))
                 /\ \/ C3_Attr(met[k].start) # C3_Attr(met[m].start)
                    \/ C3_Attr(met[k].stop) # C3_Attr(met[m].stop) )
               => \E a, b \in 1..Len(kept) :
                    /\ a # b
                    /\ C3_Key(kept[a]) = C3_Key(met[k])
                    /\ C3_Key(kept[b]) = C3_Key(met[m])

\* Doc1 and then Doc2 were merged: p1 (title " X ") is kept, Doc2's p1b
\* (same key once trimmed) is not, and p2, which starts at the same instant
\* as p1 under another raw string, is kept beside it.
C3_Witness ==
  /\ Settled
  /\ results = << <<Doc1>>, <<Doc2>> >>
  /\ \E a, b \in 1..Len(tv_root) : tv_root[a].body = "p1" /\ tv_root[b].body = "p2"
  /\ \A a \in 1..Len(tv_root) : tv_root[a].body # "p1b"

\* ---------------------------------------------------------------- claim C4

\* a is strictly earlier than b.
C4_Before(a, b) ==
  \/ a.days < b.days
  \/ a.days = b.days /\ a.secs < b.secs
  \/ a.days = b.days /\ a.secs = b.secs /\ a.us < b.us

\* The last programme iteration reached the window test.
C4_Tested == verdict \in {"window", "duplicate", "keep"}

\* C4: the window stage keeps a programme according to its parsed start and
\* stop (absent when the normalizer returned no instant): both absent, kept;
\* only stop present, kept iff stop >= win_start; only start present, kept
\* iff start <= win_end; both present, kept iff start <= win_end and
\* stop >= win_start; the comparisons are inclusive, so a start one second
\* after win_end is dropped and a start exactly at win_end is kept.
C4_WindowPolicy ==
  C4_Tested =>
    LET noStart == start_dt.tag = "none"
        noStop == stop_dt.tag = "none"
        startOk == ~C4_Before(win_end, start_dt)
        stopOk == ~C4_Before(stop_dt, win_start)
    IN /\ (verdict # "window") =
            (IF noStart /\ noStop THEN TRUE
             ELSE IF noStart THEN stopOk
             ELSE IF noStop THEN startOk
             ELSE startOk /\ stopOk)
       /\ (~noStart /\ start_dt = DT(win_end.days, win_end.secs + 1, win_end.us))
            => verdict = "window"
       /\ (~noStart /\ noStop /\ start_dt = win_end) => verdict # "window"

\* A programme starting one second after win_end has just been dropped.
C4_Witness ==
  /\ verdict = "window"
  /\ start_dt = DT(win_end.days, win_end.secs + 1, win_end.us)

\* ---------------------------------------------------------------- claim C7

\* s <= t in lexicographic order of code points: s is a prefix of t, or the
\* first character in which they differ is the smaller in s.
C7_Leq(s, t) ==
  \E n \in 0..Len(s) :
    /\ n <= Len(t)
    /\ \A k \in 1..n : s[k] = t[k]
    /\ \/ n = Len(s)
       \/ n < Len(t) /\ Ord(s[n + 1]) < Ord(t[n + 1])

\* The sort key of a record: the id of a channel, the raw start string of a
\* programme, the empty string when the attribute is missing.
C7_SortKey(e) == IF e.tag = "channel" THEN C3_Attr(e.id) ELSE C3_Attr(e.start)

\* The records of seq with the tag and the sort key of e, in their order.
RECURSIVE C7_Group(_, _)
C7_Group(seq, e) ==
  IF seq = <<>> THEN <<>>
  ELSE (IF seq[1].tag = e.tag /\ C7_SortKey(seq[1]) = C7_SortKey(e)
        THEN <<seq[1]>> ELSE <<>>) \o C7_Group(Tail(seq), e)

\* doc is the canonical order of the accumulated records.
C7_Canonical(accumulated, doc) ==
  /\ Len(doc) = Len(accumulated)
  /\ \A a, b \in 1..Len(doc) :
       a < b =>
         /\ doc[a].tag = "programme" => doc[b].tag = "programme"
         /\ doc[a].tag = doc[b].tag => C7_Leq(C7_SortKey(doc[a]), C7_SortKey(doc[b]))
  /\ \A k \in 1..Len(accumulated) :
       C7_Group(doc, accumulated[k]) = C7_Group(accumulated, accumulated[k])
  /\ \A k \in 1..Len(doc) :
       C7_Group(doc, doc[k]) = C7_Group(accumulated, doc[k])

\* C7: the final document lists every kept channel before every kept
\* programme; channels are in ascending lexicographic order of id (the empty
\* id first), programmes in ascending lexicographic order of the raw start
\* string; records of equal sort key keep the relative order in which they
\* were accumulated; the sort neither adds nor drops a record. (The document
\* written is tv_root as the sort leaves it.)
C7_SortIsCanonicalAndStable ==
  [][ /\ (pc = "fetch" /\ pc' = "open") => C7_Canonical(tv_root, tv_root')
      /\ Sorted => tv_root' = tv_root ]_vars

\* Doc3 and then Doc2 were merged and sorted: the channel without id comes
\* first; p11, whose raw start string is the smallest although its instant
\* is later than p3's, comes before p3; p3 and p1b, which share the raw
\* start string, are still in the order they were accumulated in.
C7_Witness ==
  /\ Sorted
  /\ results = << <<Doc3>>, <<Doc2>> >>
  /\ tv_root[1].tag = "channel"
  /\ C3_Attr(tv_root[1].id) = <<>>
  /\ \E a \in 1..(Len(tv_root) - 2) :
       /\ tv_root[a].body = "p11"
       /\ tv_root[a + 1].body = "p3"
       /\ tv_root[a + 2].body = "p1b"

\* ---------------------------------------------------------------- claim C8

C8_Ids(doc) == {C2_Id(doc[k]) : k \in {m \in 1..Len(doc) : doc[m].tag = "channel"}}

C8_Keys(doc) == {C3_Key(doc[k]) : k \in {m \in 1..Len(doc) : doc[m].tag = "programme"}}

\* The list rs without its k-th entry.
C8_Without(rs, k) == SubSeq(rs, 1, k - 1) \o SubSeq(rs, k + 1, Len(rs))

\* The sorted document of a run over the fetch results rs.
FinalOf(rs) == SortRoot(MergeSources(EmptyAcc, rs, win_start, win_end).tv_root)

\* C8: a run in which a source appears twice in the configured list (and
\* returns the same document both times) yields the same set of channel ids
\* and the same set of programme keys as the run in which it appears once;
\* the second occurrence adds no record.
C8_RepeatedSourceAddsNothing ==
  Sorted =>
    \A k \in 1..Len(results) :
      (results[k] # <<>> /\ \E m \in 1..Len(results) : m # k /\ results[m] = results[k])
      => LET once == FinalOf(C8_Without(results, k)) IN
           /\ C8_Ids(tv_root) = C8_Ids(once)
           /\ C8_Keys(tv_root) = C8_Keys(once)
           /\ Len(tv_root) = Len(once)

\* Doc1 was fetched twice and merged twice, and it holds channels and
\* window-passing programmes.
C8_Witness ==
  /\ Sorted
  /\ results = << <<Doc1>>, <<Doc1>> >>
  /\ C8_Ids(tv_root) # {}
  /\ C8_Keys(tv_root) # {}

\* --------------------------------------------------------------- claim C10

C10_Permutations(n) ==
  {f \in [1..n -> 1..n] : \A a, b \in 1..n : a # b => f[a] # f[b]}

C10_IdSeq(doc) == LET chs == FindAll(doc, "channel") IN [k \in 1..Len(chs) |-> C2_Id(chs[k])]

C10_KeySeq(doc) == LET prs == FindAll(doc, "programme") IN [k \in 1..Len(prs) |-> C3_Key(prs[k])]

C10_StartSeq(doc) ==
  LET prs == FindAll(doc, "programme") IN [k \in 1..Len(prs) |-> C3_Attr(prs[k].start)]

\* C10 as stated: for every permutation of the configured source list the
\* final sorted document has the same sequence of channel ids and the same
\* sequence of programme keys.
C10_OrderIndependentOfSourceOrder ==
  Sorted =>
    \A f \in C10_Permutations(Len(results)) :
      LET other == FinalOf([k \in 1..Len(results) |-> results[f[k]]]) IN
        /\ C10_IdSeq(other) = C10_IdSeq(tv_root)
        /\ C10_KeySeq(other) = C10_KeySeq(tv_root)

\* C10 amended: for every permutation of the configured source list the
\* final sorted document has the same sequence of channel ids, the same set
\* of programme keys and the same sequence of raw start strings: only the
\* order among programmes of equal raw start string depends on the source
\* order.
C10_OrderIndependentUpToTies ==
  Sorted =>
    \A f \in C10_Permutations(Len(results)) :
      LET other == FinalOf([k \in 1..Len(results) |-> results[f[k]]]) IN
        /\ C10_IdSeq(other) = C10_IdSeq(tv_root)
        /\ C8_Keys(other) = C8_Keys(tv_root)
        /\ C10_StartSeq(other) = C10_StartSeq(tv_root)
        /\ Len(other) = Len(tv_root)

\* Doc1 and then Doc3 were merged and sorted: p1 and p3 share the raw start
\* string, and the other source order puts them the other way round.
C10_Witness ==
  /\ Sorted
  /\ results = << <<Doc1>>, <<Doc3>> >>
  /\ \E a \in 1..(Len(tv_root) - 1) :
       tv_root[a].body = "p1" /\ tv_root[a + 1].body = "p3"

\* ---------------------------------------------------------------- claim C1

\* C1: for every source list and every subset of sources whose fetch fails,
\* main() processes every other source in list order, reaches the
\* sort-and-write stage, and the output holds exactly what the successful
\* sources alone would have produced: a failing source contributes nothing
\* and the run is never aborted before the write.
C1_FailedSourcesOnlySkipped ==
  /\ (pc = "error" /\ \E k \in 1..Len(results) : results[k] = <<>>)
       => raised \in {"gzip.open", "tree.write"}
  /\ Sorted =>
       /\ Len(results) = Len(sources)
       /\ tv_root = FinalOf(Successful(results))

\* The part of C1 that is about the except clause alone: when main() gets
\* to the sort, every source was fetched once, in list order, and the
\* document is the one the successful sources alone produce.
C1_SkippedSourceContributesNothing ==
  /\ \A k \in 1..Len(results) : results[k] = <<>> \/ results[k] = <<sources[k]>>
  /\ Sorted =>
       /\ Len(results) = Len(sources)
       /\ tv_root = FinalOf(Successful(results))

\* ---------------------------------------------------------------- claim C5

\* C5: for every raw start or stop string the normalizer yields an instant
\* or "unparsable" and never raises, so a malformed timestamp never aborts
\* the run; a programme whose start and stop are both unparsable is kept
\* whatever the window.
C5_TimestampsNeverRaise ==
  /\ start_dt.tag # "raise"
  /\ stop_dt.tag # "raise"
  /\ raised # "parse_xmltv_time"
  /\ (verdict # "none" /\ start_dt.tag = "none" /\ stop_dt.tag = "none")
       => verdict \in {"keep", "duplicate"}

\* The second half of C5 alone: both timestamps unparsable, never dropped
\* by the window.
C5_UnparsableBothKept ==
  (verdict # "none" /\ start_dt.tag = "none" /\ stop_dt.tag = "none")
    => verdict \in {"keep", "duplicate"}

\* ---------------------------------------------------------------- claim C6

\* The raw start string of the programme of the last iteration.
C6_Raw == C3_Attr(pr.start)

\* The 14-digit core is a date and a time of day that exist.
C6_ValidCore ==
  /\ Len(C6_Raw) >= 14
  /\ \A k \in 1..14 : IsDigit(C6_Raw[k])
  /\ LET y == IntOf(SubSeq(C6_Raw, 1, 4))
         mo == IntOf(SubSeq(C6_Raw, 5, 6))
         d == IntOf(SubSeq(C6_Raw, 7, 8))
     IN /\ y \in 1..9999
        /\ mo \in 1..12
        /\ d \in 1..DaysInMonth(y, mo)
        /\ IntOf(SubSeq(C6_Raw, 9, 10)) \in 0..23
        /\ IntOf(SubSeq(C6_Raw, 11, 12)) \in 0..59
        /\ IntOf(SubSeq(C6_Raw, 13, 14)) \in 0..59

\* The core read as UTC.
C6_CoreUtc ==
  DT(ToOrdinal(IntOf(SubSeq(C6_Raw, 1, 4)), IntOf(SubSeq(C6_Raw, 5, 6)),
               IntOf(SubSeq(C6_Raw, 7, 8))),
     IntOf(SubSeq(C6_Raw, 9, 10)) * 3600 + IntOf(SubSeq(C6_Raw, 11, 12)) * 60
       + IntOf(SubSeq(C6_Raw, 13, 14)),
     0)

\* The seconds from the core read as UTC to the parsed start.
C6_SecondsFromCore ==
  (start_dt.days - C6_CoreUtc.days) * 86400 + (start_dt.secs - C6_CoreUtc.secs)

\* The suffix is a sign and four digits after optional whitespace.
C6_Offset == TzGroup(C6_Raw)

\* What C6 says of the parsed start of the last programme iteration.
C6_StartIsCoreLessOffset ==
  /\ start_dt.tag = "dt"
  /\ IF C6_Offset = <<>> \/ C6_Offset = << <<"Z">> >>
     THEN start_dt = C6_CoreUtc
     ELSE LET hhmm == IntOf(SubSeq(C6_Offset[1], 2, 3)) * 3600
                        + IntOf(SubSeq(C6_Offset[1], 4, 5)) * 60
          IN /\ start_dt.us = 0
             /\ C6_SecondsFromCore = (IF C6_Offset[1][1] = "+" THEN -hhmm ELSE hhmm)
  /\ C6_Raw = tNeg => start_dt = DT(ToOrdinal(2025, 1, 1), 5 * 3600, 0)

\* C6: for every raw timestamp with a valid 14-digit core: with no suffix or
\* the suffix Z the instant is the core read as UTC; with +HHMM it is the
\* core minus HH hours MM minutes, with -HHMM the core plus HH hours MM
\* minutes ('20250101000000 -0500' is 2025-01-01T05:00:00Z), carries across
\* day, month and year boundaries included.
C6_OffsetAppliedToEveryValidCore ==
  (verdict # "none" /\ C6_ValidCore) => C6_StartIsCoreLessOffset

\* C6 for the offsets and dates datetime can represent: an offset strictly
\* within 24 hours and a result within the years 1 to 9999.
C6_OffsetAppliedWhenRepresentable ==
  (verdict # "none" /\ C6_ValidCore /\ start_dt.tag # "raise")
    => C6_StartIsCoreLessOffset

\* ---------------------------------------------------------------- claim C9

\* C9: if the final write of the merged document fails, the run ends
\* unsuccessfully and no partial or incomplete merged file is left at the
\* output path.
C9_FailedWriteLeavesNoPartialFile ==
  raised \in {"gzip.open", "tree.write"} =>
    /\ pc = "error"
    /\ out_file # "partial"

=============================================================================
